---------------------------- MODULE Spec2Model ----------------------------
(***************************************************************************)
(* Model of src/src/main.py: a click command-line calculator with the      *)
(* subcommands dv, twr, orbital-spd, stage and mass-flow.                  *)
(*                                                                         *)
(* One run of the program is one behaviour: Init fixes the command line,   *)
(* Parse is click's conversion of the declared parameters (the decorators  *)
(* of the command), and the Run_* actions are the command bodies.  out is  *)
(* what the run has printed, exc the exception that ended it, exit its     *)
(* exit code (-1 while it runs), and calls the calls of the formulas it    *)
(* made, with arguments and values, in order.  To compare two values of    *)
(* the pure formula _dv in one state, Init may instead fix a pair of       *)
(* argument triples, which ApplyDv applies the formula to.                 *)
(*                                                                         *)
(* Numbers.  A Python float is modelled as an extended real: an exact      *)
(* rational (sign, numerator, denominator; the magnitudes are naturals of  *)
(* any size kept as limb sequences), +inf, -inf or nan.  Finite arithmetic *)
(* is exact: binary rounding, overflow and underflow of finite operands    *)
(* are not modelled, and -0.0 is not told from 0.0.  The special values    *)
(* are modelled, because the parser accepts them ("inf", "nan", "1e999")   *)
(* and because they are what an overflow produces.  math.log and           *)
(* math.sqrt of a finite positive argument are kept as the exact real      *)
(* (c * ln q, sqrt q) named by its argument; round and floor are kept as   *)
(* the formatter applied to the exact value, and RoundsTo says which       *)
(* decimal that is.  A raised exception is a value of kind "raise" that    *)
(* every later operation passes on.                                        *)
(***************************************************************************)
EXTENDS Integers, Sequences, FiniteSets, TLC

VARIABLES argv, pc, params, out, calls, exc, exit, pair

vars == <<argv, pc, params, out, calls, exc, exit, pair>>

---------------------------------------------------------------------------
(* Naturals of any size: little-endian limbs, no leading zero limb.        *)

Base == 10000

RECURSIVE BOf(_)
BOf(i) == IF i = 0 THEN <<>> ELSE <<i % Base>> \o BOf(i \div Base)

RECURSIVE BTrim(_)
BTrim(a) ==
    IF a = <<>> THEN <<>>
    ELSE IF a[Len(a)] = 0 THEN BTrim(SubSeq(a, 1, Len(a) - 1)) ELSE a

\* a + b + c, c a carry
RECURSIVE BAddC(_, _, _)
BAddC(a, b, c) ==
    IF a = <<>> /\ b = <<>> THEN (IF c = 0 THEN <<>> ELSE <<c>>)
    ELSE IF a = <<>> THEN BAddC(<<0>>, b, c)
    ELSE IF b = <<>> THEN BAddC(a, <<0>>, c)
    ELSE <<(Head(a) + Head(b) + c) % Base>>
         \o BAddC(Tail(a), Tail(b), (Head(a) + Head(b) + c) \div Base)

BAdd(a, b) == BAddC(a, b, 0)

\* a - b - c for a >= b + c, c a borrow; leading zero limbs are left in
RECURSIVE BSubB(_, _, _)
BSubB(a, b, c) ==
    IF a = <<>> THEN <<>>
    ELSE IF b = <<>> THEN BSubB(a, <<0>>, c)
    ELSE IF Head(a) - Head(b) - c < 0
         THEN <<Head(a) - Head(b) - c + Base>> \o BSubB(Tail(a), Tail(b), 1)
         ELSE <<Head(a) - Head(b) - c>> \o BSubB(Tail(a), Tail(b), 0)

BSub(a, b) == BTrim(BSubB(a, b, 0))

RECURSIVE BCmpHi(_, _, _)
BCmpHi(a, b, i) ==
    IF i = 0 THEN 0
    ELSE IF a[i] < b[i] THEN -1
    ELSE IF a[i] > b[i] THEN 1
    ELSE BCmpHi(a, b, i - 1)

\* -1, 0, 1 as a < b, a = b, a > b
BCmp(a, b) ==
    IF Len(a) < Len(b) THEN -1
    ELSE IF Len(a) > Len(b) THEN 1
    ELSE BCmpHi(a, b, Len(a))

\* a * m + c for one limb m
RECURSIVE BMulLimb(_, _, _)
BMulLimb(a, m, c) ==
    IF a = <<>> THEN (IF c = 0 THEN <<>> ELSE <<c>>)
    ELSE <<(Head(a) * m + c) % Base>>
         \o BMulLimb(Tail(a), m, (Head(a) * m + c) \div Base)

BShift(a) == IF a = <<>> THEN <<>> ELSE <<0>> \o a

RECURSIVE BMul(_, _)
BMul(a, b) ==
    IF a = <<>> \/ b = <<>> THEN <<>>
    ELSE BAdd(BTrim(BMulLimb(a, Head(b), 0)), BShift(BMul(a, Tail(b))))

\* b * 10^e, b itself for e <= 0
RECURSIVE Scale(_, _)
Scale(b, e) == IF e <= 0 THEN b ELSE Scale(BMulLimb(b, 10, 0), e - 1)

---------------------------------------------------------------------------
(* Python floats as extended reals, and raised exceptions.                 *)

Raise(e) == [k |-> "raise", exc |-> e]
NaN      == [k |-> "nan"]
Inf(s)   == [k |-> "inf", s |-> s]
Rat(s, n, d) == [k |-> "rat", s |-> IF n = <<>> THEN 0 ELSE s, n |-> n, d |-> d]

Zero == [k |-> "rat", s |-> 0, n |-> <<>>, d |-> <<1>>]
One  == [k |-> "rat", s |-> 1, n |-> <<1>>, d |-> <<1>>]

\* the decimal literal m * 10^e
Dec(m, e) ==
    IF m < 0 THEN Rat(-1, Scale(BOf(-m), e), Scale(<<1>>, -e))
    ELSE Rat(1, Scale(BOf(m), e), Scale(<<1>>, -e))

IsRaise(v) == v.k = "raise"

\* sa * x / d + sb * y / d for signs sa, sb of 1 or -1
AddSigned(sa, x, sb, y, d) ==
    IF sa = sb THEN Rat(sa, BAdd(x, y), d)
    ELSE IF BCmp(x, y) = 0 THEN Zero
    ELSE IF BCmp(x, y) = 1 THEN Rat(sa, BSub(x, y), d)
    ELSE Rat(sb, BSub(y, x), d)

\* float + float
Add(a, b) ==
    IF IsRaise(a) THEN a
    ELSE IF IsRaise(b) THEN b
    ELSE IF a.k = "nan" \/ b.k = "nan" THEN NaN
    ELSE IF a.k = "inf" THEN (IF b.k = "inf" /\ b.s # a.s THEN NaN ELSE a)
    ELSE IF b.k = "inf" THEN b
    ELSE IF a.s = 0 THEN b
    ELSE IF b.s = 0 THEN a
    ELSE AddSigned(a.s, BMul(a.n, b.d), b.s, BMul(b.n, a.d), BMul(a.d, b.d))

\* the sign of ln(q) for a finite q > 0
LnSign(q) == BCmp(q.n, q.d)

\* the product of two finite floats
MulRat(a, b) == Rat(a.s * b.s, BMul(a.n, b.n), BMul(a.d, b.d))

\* float * float; the right operand may be a logarithm c * ln(q)
Mul(a, b) ==
    IF IsRaise(a) THEN a
    ELSE IF IsRaise(b) THEN b
    ELSE IF a.k = "nan" \/ b.k = "nan" THEN NaN
    ELSE IF b.k = "ln" THEN
        (IF a.k = "inf" THEN Inf(a.s * b.c.s * LnSign(b.q))
         ELSE IF a.s = 0 THEN Zero
         ELSE [k |-> "ln", c |-> MulRat(a, b.c), q |-> b.q])
    ELSE IF a.k = "inf" \/ b.k = "inf" THEN
        (IF a.s = 0 \/ b.s = 0 THEN NaN ELSE Inf(a.s * b.s))
    ELSE MulRat(a, b)

\* float / float: division by zero raises whatever the dividend
Div(a, b) ==
    IF IsRaise(a) THEN a
    ELSE IF IsRaise(b) THEN b
    ELSE IF b.k = "rat" /\ b.s = 0 THEN Raise("ZeroDivisionError")
    ELSE IF a.k = "nan" \/ b.k = "nan" THEN NaN
    ELSE IF a.k = "inf" THEN (IF b.k = "inf" THEN NaN ELSE Inf(a.s * b.s))
    ELSE IF b.k = "inf" THEN Zero
    ELSE Rat(a.s * b.s, BMul(a.n, b.d), BMul(a.d, b.n))

\* math.log
log(x) ==
    IF IsRaise(x) THEN x
    ELSE IF x.k = "nan" THEN NaN
    ELSE IF x.k = "inf" THEN (IF x.s = 1 THEN Inf(1) ELSE Raise("ValueError"))
    ELSE IF x.s <= 0 THEN Raise("ValueError")
    ELSE IF LnSign(x) = 0 THEN Zero
    ELSE [k |-> "ln", c |-> One, q |-> x]

\* math.sqrt
sqrt(x) ==
    IF IsRaise(x) THEN x
    ELSE IF x.k = "nan" THEN NaN
    ELSE IF x.k = "inf" THEN (IF x.s = 1 THEN Inf(1) ELSE Raise("ValueError"))
    ELSE IF x.s < 0 THEN Raise("ValueError")
    ELSE IF x.s = 0 THEN Zero
    ELSE [k |-> "sqrt", q |-> x]

\* math.floor: no integer for nan or an infinity
floor(x) ==
    IF IsRaise(x) THEN x
    ELSE IF x.k = "nan" THEN Raise("ValueError")
    ELSE IF x.k = "inf" THEN Raise("OverflowError")
    ELSE [k |-> "floor", of |-> x]

\* round(x, nd): a float again, never an exception
round(x, nd) ==
    IF IsRaise(x) THEN x
    ELSE IF x.k \in {"nan", "inf"} THEN x
    ELSE [k |-> "round", nd |-> nd, of |-> x]

\* sum(...) of a sequence of floats, starting from 0
RECURSIVE sum(_)
sum(s) == IF s = <<>> THEN Zero ELSE Add(sum(SubSeq(s, 1, Len(s) - 1)), s[Len(s)])

---------------------------------------------------------------------------
(* The constant tables.                                                    *)

KSP_G0 == Dec(982, -2)

KSP_BODIES ==
    [kerbin |-> [g0 |-> Dec(982, -2),
                 std_grav_param |-> Dec(35316423, 5),
                 radius |-> Dec(600000, 0)],
     mun    |-> [g0 |-> Dec(166, -2),
                 radius |-> Dec(200000, 0),
                 std_grav_param |-> Dec(65139178, 3)]]

KSP_ENGINES ==
    [e \in {"lv-t30", "lv-t45", "lv-909"} |->
        CASE e = "lv-t30" -> [isp_atm |-> Dec(265, 0), isp_vac |-> Dec(310, 0),
                              mass |-> Dec(125, -2),
                              thrust_atm |-> Dec(20567, 1),
                              thrust_vac |-> Dec(240, 3)]
          [] e = "lv-t45" -> [isp_atm |-> Dec(250, 0), isp_vac |-> Dec(320, 0),
                              mass |-> Dec(15, -1),
                              thrust_atm |-> Dec(16875, 1),
                              thrust_vac |-> Dec(215, 3)]
          [] e = "lv-909" -> [isp_atm |-> Dec(85, 0), isp_vac |-> Dec(345, 0),
                              mass |-> Dec(5, -1),
                              thrust_atm |-> Dec(14753, 0),
                              thrust_vac |-> Dec(60, 3)]]

\* table[key][field]: a key the table lacks raises KeyError
Lookup(table, key, field) ==
    IF key \in DOMAIN table THEN table[key][field] ELSE Raise("KeyError")

---------------------------------------------------------------------------
(* The formulas.                                                           *)

\* a negative result replaced by 0
_dv_Clamped(empty, full, isp) ==
    IF Mul(Mul(isp, KSP_G0), log(Div(full, empty))).k = "ln"
       /\ Mul(Mul(isp, KSP_G0), log(Div(full, empty))).c.s
            * LnSign(Mul(Mul(isp, KSP_G0), log(Div(full, empty))).q) = -1
    THEN Zero
    ELSE Mul(Mul(isp, KSP_G0), log(Div(full, empty)))

\* the ratio taken upside down
_dv_Inverted(empty, full, isp) == Mul(Mul(isp, KSP_G0), log(Div(empty, full)))

_dv(empty, full, isp) == Mul(Mul(isp, KSP_G0), log(Div(full, empty)))

\* the mass taken for kilograms
_twr_NoKg(body, mass, thrust) ==
    Div(thrust, Mul(mass, Lookup(KSP_BODIES, body, "g0")))

_twr(body, mass, thrust) ==
    Div(thrust, Mul(Mul(mass, Dec(1000, 0)), Lookup(KSP_BODIES, body, "g0")))

\* the height taken from the centre of the body
_orbital_spd_NoRadius(body, height) ==
    sqrt(Div(Lookup(KSP_BODIES, body, "std_grav_param"), height))

_orbital_spd(body, height) ==
    sqrt(Div(Lookup(KSP_BODIES, body, "std_grav_param"),
             Add(Lookup(KSP_BODIES, body, "radius"), height)))

\* 'thrust_{}'.format(spec), 'isp_{}'.format(spec)
ThrustKey(spec) == IF spec = "atm" THEN "thrust_atm" ELSE "thrust_vac"

IspKey(spec) == IF spec = "atm" THEN "isp_atm" ELSE "isp_vac"

thr_sum(engines, spec) ==
    sum([i \in 1..Len(engines) |-> Lookup(KSP_ENGINES, engines[i], ThrustKey(spec))])

\* the combined thrust over the mean of the impulses
flow_sum_MeanIsp(engines, spec) ==
    Div(thr_sum(engines, spec),
        Div(sum([i \in 1..Len(engines) |-> Lookup(KSP_ENGINES, engines[i], IspKey(spec))]),
            Dec(Len(engines), 0)))

flow_sum(engines, spec) ==
    sum([i \in 1..Len(engines) |->
            Div(Lookup(KSP_ENGINES, engines[i], ThrustKey(spec)),
                Lookup(KSP_ENGINES, engines[i], IspKey(spec)))])

\* the 4-tuple returned, or the exception one of its members raised
StatsTuple(thr_atm, thr_vac, isp_atm, isp_vac) ==
    IF IsRaise(thr_atm) THEN thr_atm
    ELSE IF IsRaise(thr_vac) THEN thr_vac
    ELSE IF IsRaise(isp_atm) THEN isp_atm
    ELSE IF IsRaise(isp_vac) THEN isp_vac
    ELSE [k |-> "tuple", thr_atm |-> thr_atm, thr_vac |-> thr_vac,
          isp_atm |-> isp_atm, isp_vac |-> isp_vac]

_engine_stats(engines) ==
    StatsTuple(thr_sum(engines, "atm"),
               thr_sum(engines, "vac"),
               Div(thr_sum(engines, "atm"), flow_sum(engines, "atm")),
               Div(thr_sum(engines, "vac"), flow_sum(engines, "vac")))

---------------------------------------------------------------------------
(* Command bodies.  A body is a list of statements run in order; each      *)
(* prints one line.  The first statement whose value raises ends the run:  *)
(* the lines before it are already printed.  A statement is the line it    *)
(* prints and the formula calls made to compute the line.                  *)

Call(fn, args, ret) == [fn |-> fn, args |-> args, ret |-> ret]

Stmt(text, val, stmtCalls) == [line |-> [text |-> text, val |-> val], calls |-> stmtCalls]

\* the statements before the first one that raises
RECURSIVE Printed(_)
Printed(stmts) ==
    IF stmts = <<>> \/ IsRaise(Head(stmts).line.val) THEN <<>>
    ELSE <<Head(stmts).line>> \o Printed(Tail(stmts))

\* the exception of the first statement that raises, "none" when none does
RECURSIVE Raised(_)
Raised(stmts) ==
    IF stmts = <<>> THEN "none"
    ELSE IF IsRaise(Head(stmts).line.val) THEN Head(stmts).line.val.exc
    ELSE Raised(Tail(stmts))

\* the calls made up to and including the first statement that raises
RECURSIVE Called(_)
Called(stmts) ==
    IF stmts = <<>> THEN <<>>
    ELSE IF IsRaise(Head(stmts).line.val) THEN Head(stmts).calls
    ELSE Head(stmts).calls \o Called(Tail(stmts))

\* what running the statements leaves: printed lines, exception, calls made
Exec(pre, stmts) ==
    [out |-> Printed(stmts), exc |-> Raised(stmts), calls |-> pre \o Called(stmts)]

\* print('.. = {} ..'.format(round(r, 2))), r the value of the call c
FormulaStmt(text, r, c) == Stmt(text, round(r, 2), <<Call(c.fn, c.args, r)>>)

\* the text is the source's, with its first two characters (Greek Delta v) as dv
dv(p) ==
    Exec(<<>>, <<FormulaStmt("dv = {} m/s", _dv(p.empty, p.full, p.isp),
                             [fn |-> "_dv",
                              args |-> [empty |-> p.empty, full |-> p.full,
                                        isp |-> p.isp]])>>)

twr(p) ==
    Exec(<<>>, <<FormulaStmt("TWR = {}", _twr(p.body, p.mass, p.thrust),
                             [fn |-> "_twr",
                              args |-> [body |-> p.body, mass |-> p.mass,
                                        thrust |-> p.thrust]])>>)

orbital_spd(p) ==
    Exec(<<>>, <<FormulaStmt("Speed = {}", _orbital_spd(p.body, p.height),
                             [fn |-> "_orbital_spd",
                              args |-> [body |-> p.body, height |-> p.height]])>>)

mass_flow(p) ==
    Exec(<<>>,
         <<Stmt("Mass flow: {}",
                round(Div(Lookup(KSP_ENGINES, p.engine, "thrust_vac"),
                          Mul(Lookup(KSP_ENGINES, p.engine, "isp_vac"), KSP_G0)), 3),
                <<>>)>>)

\* the masses passed to the formula in the wrong order
DvStmt_Swapped(text, dry, full, isp, r) ==
    Stmt(text, floor(_dv(full, dry, isp)),
         <<Call("_dv", [empty |-> full, full |-> dry, isp |-> isp],
                _dv(full, dry, isp))>>)

\* print('dv (..):   {} m/s'.format(floor(_dv(dry, full, isp)))), r the value of _dv
DvStmt(text, dry, full, isp, r) ==
    Stmt(text, floor(r),
         <<Call("_dv", [empty |-> dry, full |-> full, isp |-> isp], r)>>)

\* print('TWR (..):  {} ({})'.format(round(_twr(body, full, thr), 2), body))
TwrStmt(text, body, full, thr, r) ==
    [line  |-> [text |-> text, val |-> round(r, 2), body |-> body],
     calls |-> <<Call("_twr", [body |-> body, mass |-> full, thrust |-> thr], r)>>]

\* lines 131-136, with dry and full as lines 128-129 left them
StagePrints(body, es, dry, full) ==
    <<Stmt("Dry mass:   {} t", round(dry, 1), <<>>),
      Stmt("Total mass: {} t", round(full, 1), <<>>),
      DvStmt("dv (atm):   {} m/s", dry, full, es.isp_atm, _dv(dry, full, es.isp_atm)),
      DvStmt("dv (vac):   {} m/s", dry, full, es.isp_vac, _dv(dry, full, es.isp_vac)),
      TwrStmt("TWR (atm):  {} ({})", body, full, es.thr_atm, _twr(body, full, es.thr_atm)),
      TwrStmt("TWR (vac):  {} ({})", body, full, es.thr_vac, _twr(body, full, es.thr_vac))>>

\* the mass of the first engine only
eng_mass_FirstOnly(engines) == Lookup(KSP_ENGINES, engines[1], "mass")

\* line 126
eng_mass(engines) ==
    sum([i \in 1..Len(engines) |-> Lookup(KSP_ENGINES, engines[i], "mass")])

\* line 128
StageDry(p, em) == Add(Add(p.payload, em), Mul(p.tank_dry, p.n_tanks))

\* line 128 copied with the tank left dry
StageFull_DryTank(p, em) == Add(Add(p.payload, em), Mul(p.tank_dry, p.n_tanks))

\* line 129
StageFull(p, em) == Add(Add(p.payload, em), Mul(p.tank_full, p.n_tanks))

\* lines 127-136, with em the value of eng_mass and es that of _engine_stats
StageBody(p, em, es) ==
    IF IsRaise(em) THEN [out |-> <<>>, exc |-> em.exc, calls |-> <<>>]
    ELSE IF IsRaise(es)
    THEN [out |-> <<>>, exc |-> es.exc,
          calls |-> <<Call("_engine_stats", [engines |-> p.engines], es)>>]
    ELSE Exec(<<Call("_engine_stats", [engines |-> p.engines], es)>>,
              StagePrints(p.body, es, StageDry(p, em), StageFull(p, em)))

stage(p) == StageBody(p, eng_mass(p.engines), _engine_stats(p.engines))

---------------------------------------------------------------------------
(* The command line.  A token of a FLOAT parameter is the float it reads   *)
(* as, or Str for a token float() rejects.  A name is a string; the empty  *)
(* string for --body says the option is not given.  stacks is the value    *)
(* given with --stacks, Absent when the option is not on the line.         *)

Str    == [k |-> "str"]
Absent == [k |-> "absent"]

MaxMass    == 2
MaxTank    == 1
MaxTanks   == 1
MaxEngines == 2
MaxIsp     == 3
MaxThrust  == 2
MaxHeight  == 1

Masses  == {Dec(i, 0) : i \in 0..MaxMass}
Isps    == {Dec(i, 2) : i \in 0..MaxIsp}
Thrusts == {Dec(i, 3) : i \in 0..MaxThrust}
Heights == {Dec(i, 5) : i \in (-7)..MaxHeight}

BodyNames   == {"kerbin", "mun", "duna"}
EngineNames == {"lv-t30", "lv-t45", "lv-909", "nerv"}

EngineLists == UNION {[1..n -> EngineNames] : n \in 0..MaxEngines}

ArgvDv ==
    [cmd : {"dv"},
     empty : Masses \cup {Inf(1)},
     full  : Masses \cup {Dec(-1, 0), Inf(1)},
     isp   : Isps \cup {Inf(1), NaN, Str}]

ArgvTwr ==
    [cmd : {"twr"}, body : BodyNames,
     mass   : Masses \cup {Inf(1), Str},
     thrust : Thrusts \cup {Inf(1)}]

ArgvOrbitalSpd ==
    [cmd : {"orbital-spd"}, body : BodyNames,
     height : Heights \cup {Inf(1), Inf(-1), NaN, Str}]

ArgvStage ==
    [cmd : {"stage"},
     payload   : {Dec(i, 0) : i \in 0..MaxTank} \cup {Dec(-125, -2), Inf(1), Str},
     tank_dry  : {Dec(i, 0) : i \in 0..MaxTank} \cup {Inf(1)},
     tank_full : {Dec(i, 0) : i \in 0..(MaxTank + 1)} \cup {Inf(1)},
     n_tanks   : {Dec(i, 0) : i \in 0..MaxTanks},
     engines   : EngineLists,
     body      : {"", "mun", "duna"},
     stacks    : {Absent, Dec(2, 0)}]

ArgvMassFlow == [cmd : {"mass-flow"}, engine : EngineNames]

Argv == ArgvDv \cup ArgvTwr \cup ArgvOrbitalSpd \cup ArgvStage \cup ArgvMassFlow

\* argument triples of the delta-v formula, to apply it to two at a time
DvTriples ==
    [empty : {Dec(i, 0) : i \in 1..(MaxMass + 1)} \cup {Inf(1)},
     full  : {Dec(i, 0) : i \in 1..(MaxMass + 1)} \cup {Inf(1)},
     isp   : {Dec(i, 2) : i \in 1..MaxIsp} \cup {Inf(1)}]

---------------------------------------------------------------------------
(* click: every declared parameter is converted before the body is called; *)
(* a token its type rejects, a missing required argument or an option the  *)
(* command does not declare ends the run with a usage error, exit code 2.  *)

\* click.FLOAT
FloatOk(tok) == tok.k # "str"

\* the parameter declared without its Choice type
ChoiceOk_AnyName(name, table) == TRUE

\* click.Choice(table.keys())
ChoiceOk(name, table) == name \in DOMAIN table

Accepted(a) ==
    CASE a.cmd = "dv" ->
            FloatOk(a.empty) /\ FloatOk(a.full) /\ FloatOk(a.isp)
      [] a.cmd = "twr" ->
            ChoiceOk(a.body, KSP_BODIES) /\ FloatOk(a.mass) /\ FloatOk(a.thrust)
      [] a.cmd = "orbital-spd" ->
            ChoiceOk(a.body, KSP_BODIES) /\ FloatOk(a.height)
      [] a.cmd = "stage" ->
            /\ FloatOk(a.payload) /\ FloatOk(a.tank_dry)
            /\ FloatOk(a.tank_full) /\ FloatOk(a.n_tanks)
            /\ Len(a.engines) > 0
            /\ \A i \in 1..Len(a.engines) : ChoiceOk(a.engines[i], KSP_ENGINES)
            /\ (a.body = "" \/ ChoiceOk(a.body, KSP_BODIES))
            /\ a.stacks = Absent
      [] a.cmd = "mass-flow" ->
            ChoiceOk(a.engine, KSP_ENGINES)

\* the keyword arguments the body is called with
Converted(a) ==
    IF a.cmd = "stage"
    THEN [payload |-> a.payload, tank_dry |-> a.tank_dry,
          tank_full |-> a.tank_full, n_tanks |-> a.n_tanks,
          engines |-> a.engines,
          body |-> IF a.body = "" THEN "kerbin" ELSE a.body]
    ELSE a

---------------------------------------------------------------------------
(* One run of the program; or, to compare two values of the delta-v       *)
(* formula in one state, the formula applied to a pair of triples.         *)

Unset == [k |-> "unset"]

Init ==
    /\ \/ /\ argv \in Argv
          /\ pc = "parse"
          /\ pair = Unset
       \/ /\ argv = [cmd |-> "none"]
          /\ pc = "formula"
          /\ pair \in [a : DvTriples, b : DvTriples, ra : {Unset}, rb : {Unset}]
    /\ params = Unset
    /\ out = <<>>
    /\ calls = <<>>
    /\ exc = "none"
    /\ exit = -1

Parse ==
    /\ pc = "parse"
    /\ IF Accepted(argv)
       THEN /\ params' = Converted(argv)
            /\ pc' = "run"
            /\ exit' = exit
       ELSE /\ params' = params
            /\ pc' = "done"
            /\ exit' = 2
    /\ UNCHANGED <<argv, out, calls, exc, pair>>

\* the body runs to its end or to the exception that ends the process
Finish(res) ==
    /\ out' = res.out
    /\ calls' = res.calls
    /\ exc' = res.exc
    /\ exit' = IF res.exc = "none" THEN 0 ELSE 1
    /\ pc' = "done"
    /\ UNCHANGED <<argv, params, pair>>

Run_dv == pc = "run" /\ argv.cmd = "dv" /\ Finish(dv(params))

Run_twr == pc = "run" /\ argv.cmd = "twr" /\ Finish(twr(params))

Run_orbital_spd == pc = "run" /\ argv.cmd = "orbital-spd" /\ Finish(orbital_spd(params))

Run_stage == pc = "run" /\ argv.cmd = "stage" /\ Finish(stage(params))

Run_mass_flow == pc = "run" /\ argv.cmd = "mass-flow" /\ Finish(mass_flow(params))

ApplyDv ==
    /\ pc = "formula"
    /\ pair' = [pair EXCEPT
                    !.ra = _dv(pair.a.empty, pair.a.full, pair.a.isp),
                    !.rb = _dv(pair.b.empty, pair.b.full, pair.b.isp)]
    /\ pc' = "done"
    /\ UNCHANGED <<argv, params, out, calls, exc, exit>>

Next ==
    \/ Parse
    \/ Run_dv
    \/ Run_twr
    \/ Run_orbital_spd
    \/ Run_stage
    \/ Run_mass_flow
    \/ ApplyDv

Spec == Init /\ [][Next]_vars

---------------------------------------------------------------------------
(* Reading values: sign, equality and order of the reals the values stand  *)
(* for.  nan equals nothing and is ordered with nothing.                   *)

Fin(v) == v.k = "rat"

\* 1, 0, -1; 2 for a value without a sign
Sign(v) ==
    CASE v.k \in {"rat", "inf"} -> v.s
      [] v.k = "ln" -> v.c.s * LnSign(v.q)
      [] v.k = "sqrt" -> 1
      [] OTHER -> 2

Neg(v) == IF v.k \in {"rat", "inf"} THEN [v EXCEPT !.s = -v.s] ELSE v

EqVal(a, b) ==
    CASE a.k = "rat" /\ b.k = "rat" ->
            a.s = b.s /\ BMul(a.n, b.d) = BMul(b.n, a.d)
      [] a.k = "inf" /\ b.k = "inf" -> a.s = b.s
      [] a.k = "ln" /\ b.k = "ln" ->
            /\ a.c.s = b.c.s /\ BMul(a.c.n, b.c.d) = BMul(b.c.n, a.c.d)
            /\ BMul(a.q.n, b.q.d) = BMul(b.q.n, a.q.d)
      [] OTHER -> FALSE

Lt(a, b) ==
    /\ a.k \in {"rat", "inf"}
    /\ b.k \in {"rat", "inf"}
    /\ ~(a.k = "inf" /\ b.k = "inf" /\ a.s = b.s)
    /\ Sign(Add(b, Neg(a))) = 1

Le(a, b) == Lt(a, b) \/ EqVal(a, b)

\* x < y for two values of the delta-v formula with a positive factor and
\* a ratio above 1: c * ln(q) with c > 0 and q > 1, or +inf
DvLt(x, y) ==
    CASE x.k = "ln" /\ y.k = "ln" ->
            \/ EqVal(x.q, y.q) /\ Lt(x.c, y.c)
            \/ EqVal(x.c, y.c) /\ Lt(x.q, y.q)
      [] x.k = "ln" /\ y.k = "inf" -> y.s = 1
      [] OTHER -> FALSE

\* the value a printed line formats, before round or floor
Unrounded(v) == IF v.k \in {"round", "floor"} THEN v.of ELSE v

\* round(sqrt(q), nd) is the decimal k / 10^nd, for k >= 1:
\* (2k - 1)^2 * d <= 4 * 10^(2 nd) * n < (2k + 1)^2 * d for q = n / d
RoundsTo(v, k, nd) ==
    /\ v.k = "round"
    /\ v.nd = nd
    /\ v.of.k = "sqrt"
    /\ BCmp(BMul(BMul(BOf(2 * k - 1), BOf(2 * k - 1)), v.of.q.d),
            BMul(Scale(<<4>>, 2 * nd), v.of.q.n)) <= 0
    /\ BCmp(BMul(Scale(<<4>>, 2 * nd), v.of.q.n),
            BMul(BMul(BOf(2 * k + 1), BOf(2 * k + 1)), v.of.q.d)) = -1

\* the run is a call of the command body cmd that has ended
Ran(cmd) == argv.cmd = cmd /\ pc = "done" /\ params # Unset

\* the formula calls of the run with this name
CallsOf(fn) == {i \in 1..Len(calls) : calls[i].fn = fn}

---------------------------------------------------------------------------
(* C1 *)

ExpectedLines == IF argv.cmd = "stage" THEN 6 ELSE 1

\* every number on the command line is finite
FiniteArgs ==
    CASE argv.cmd = "dv" -> Fin(argv.empty) /\ Fin(argv.full) /\ Fin(argv.isp)
      [] argv.cmd = "twr" -> Fin(argv.mass) /\ Fin(argv.thrust)
      [] argv.cmd = "orbital-spd" -> Fin(argv.height)
      [] argv.cmd = "stage" ->
            /\ Fin(argv.payload) /\ Fin(argv.tank_dry)
            /\ Fin(argv.tank_full) /\ Fin(argv.n_tanks)
      [] OTHER -> TRUE

\* C1: a run of dv, twr, orbital-spd or stage whose arguments the parser
\* accepted (here: finite numbers) ends either with exit code 0 and all of
\* its lines printed, or with a failure and no line printed; stage never
\* prints some of its lines and then ends with an arithmetic error.
C1_AllOrNothing ==
    (pc = "done" /\ params # Unset /\ FiniteArgs
     /\ argv.cmd \in {"dv", "twr", "orbital-spd", "stage"})
    => \/ exit = 0 /\ Len(out) = ExpectedLines
       \/ exit # 0 /\ out = <<>>

---------------------------------------------------------------------------
(* C2 *)

BadName(a) ==
    CASE a.cmd \in {"twr", "orbital-spd"} -> a.body \notin DOMAIN KSP_BODIES
      [] a.cmd = "stage" ->
            \/ a.body # "" /\ a.body \notin DOMAIN KSP_BODIES
            \/ \E i \in 1..Len(a.engines) : a.engines[i] \notin DOMAIN KSP_ENGINES
      [] OTHER -> FALSE

\* C2: a run of twr, orbital-spd or stage with a body name outside the body
\* table or an engine name outside the engine table, wherever it stands,
\* never enters the command body: no formula is called, no line is printed
\* and the run ends with the usage error's exit code 2.
C2_BadNameRejected ==
    BadName(argv) =>
        /\ pc # "run"
        /\ params = Unset
        /\ calls = <<>>
        /\ out = <<>>
        /\ pc = "done" => exit = 2

\* a bad engine name after a valid one, all else valid, has been rejected
C2_Witness ==
    /\ argv.cmd = "stage"
    /\ pc = "done"
    /\ FloatOk(argv.payload)
    /\ argv.body = ""
    /\ argv.stacks = Absent
    /\ Len(argv.engines) = 2
    /\ argv.engines[1] = "lv-t30"
    /\ argv.engines[2] = "nerv"
    /\ exit = 2

---------------------------------------------------------------------------
(* C3 *)

\* C3 as claimed: for a body of the table, a finite mass > 0 and a finite
\* thrust, the TWR formula returns thrust / (mass * g0(body)), nothing
\* scaled.
C3_TwrUnscaled ==
    \A i \in CallsOf("_twr") :
        (/\ calls[i].args.body \in DOMAIN KSP_BODIES
         /\ Fin(calls[i].args.mass) /\ calls[i].args.mass.s = 1
         /\ Fin(calls[i].args.thrust))
        => EqVal(Mul(calls[i].ret,
                     Mul(calls[i].args.mass, KSP_BODIES[calls[i].args.body].g0)),
                 calls[i].args.thrust)

\* C3 amended: for a body of the table, a finite mass > 0 and a finite
\* thrust, the TWR formula returns thrust / (mass * 1000 * g0(body)); and
\* the two TWR lines of stage print this formula's value, rounded to two
\* decimals, for the total mass, the body and the combined atmospheric and
\* vacuum thrust.
C3_TwrTonnes ==
    /\ \A i \in CallsOf("_twr") :
        (/\ calls[i].args.body \in DOMAIN KSP_BODIES
         /\ Fin(calls[i].args.mass) /\ calls[i].args.mass.s = 1
         /\ Fin(calls[i].args.thrust))
        => EqVal(Mul(calls[i].ret,
                     Mul(Mul(calls[i].args.mass, Dec(1000, 0)),
                         KSP_BODIES[calls[i].args.body].g0)),
                 calls[i].args.thrust)
    /\ (Ran("stage") /\ Len(out) = 6) =>
        /\ Len(calls) = 5
        /\ \A j \in {4, 5} :
            /\ calls[j].fn = "_twr"
            /\ calls[j].args.body = params.body
            /\ calls[j].args.mass = Unrounded(out[2].val)
            /\ out[j + 1].val = round(calls[j].ret, 2)
            /\ out[j + 1].body = params.body
        /\ calls[4].args.thrust = calls[1].ret.thr_atm
        /\ calls[5].args.thrust = calls[1].ret.thr_vac
        /\ EqVal(calls[1].ret.thr_atm,
                 sum([i \in 1..Len(params.engines) |->
                        KSP_ENGINES[params.engines[i]].thrust_atm]))
        /\ EqVal(calls[1].ret.thr_vac,
                 sum([i \in 1..Len(params.engines) |->
                        KSP_ENGINES[params.engines[i]].thrust_vac]))

\* stage has printed its two TWR lines for two engines on the Mun
C3_Witness ==
    /\ Ran("stage")
    /\ Len(out) = 6
    /\ params.body = "mun"
    /\ Len(params.engines) = 2
    /\ Fin(Unrounded(out[2].val))

---------------------------------------------------------------------------
(* C4, C5 *)

\* the sum of the table masses of the engines on the command line
EngineMass ==
    sum([i \in 1..Len(argv.engines) |-> KSP_ENGINES[argv.engines[i]].mass])

\* the tokens of a stage command line are all valid, --stacks aside
StageLineValid ==
    /\ argv.cmd = "stage"
    /\ FloatOk(argv.payload) /\ FloatOk(argv.tank_dry)
    /\ FloatOk(argv.tank_full) /\ FloatOk(argv.n_tanks)
    /\ Len(argv.engines) > 0
    /\ \A i \in 1..Len(argv.engines) : argv.engines[i] \in DOMAIN KSP_ENGINES
    /\ argv.body \in {""} \cup DOMAIN KSP_BODIES

\* the stack count of the command line: --stacks N, 1 without the option
Stacks == IF argv.stacks = Absent THEN One ELSE argv.stacks

\* payload + (engine mass + tank * n_tanks) * N
StackedMass(tank, N) ==
    Add(argv.payload, Mul(Add(EngineMass, Mul(tank, argv.n_tanks)), N))

\* the dry and total mass printed are the arguments of every delta-v call
MassesPassedOn ==
    /\ CallsOf("_dv") # {}
    /\ \A i \in CallsOf("_dv") :
        /\ calls[i].args.empty = Unrounded(out[1].val)
        /\ calls[i].args.full = Unrounded(out[2].val)

C5_NoTanksAnyMass ==
    (Ran("stage") /\ EqVal(params.n_tanks, Zero)) =>
        /\ Len(out) >= 2
        /\ EqVal(Unrounded(out[1].val), Add(argv.payload, EngineMass))
        /\ EqVal(Unrounded(out[2].val), Add(argv.payload, EngineMass))

\* C5 amended: a stage that runs with n_tanks = 0 and finite payload,
\* tank_dry and tank_full has dry and total mass payload + engine_mass,
\* engine_mass the sum of the table masses of the engines listed, each as
\* often as it is listed.
C5_NoTanksFinite ==
    (Ran("stage") /\ EqVal(params.n_tanks, Zero) /\ FiniteArgs) =>
        /\ Len(out) >= 2
        /\ EqVal(Unrounded(out[1].val), Add(argv.payload, EngineMass))
        /\ EqVal(Unrounded(out[2].val), Add(argv.payload, EngineMass))

\* a stage without tanks, of one engine listed twice and differing finite
\* tank masses, has printed its masses
C5_Witness ==
    /\ Ran("stage")
    /\ EqVal(params.n_tanks, Zero)
    /\ FiniteArgs
    /\ Len(params.engines) = 2
    /\ params.engines[1] = params.engines[2]
    /\ Lt(Zero, params.tank_dry)
    /\ Lt(params.tank_dry, params.tank_full)
    /\ Len(out) >= 2

---------------------------------------------------------------------------
(* C6 *)

\* the claim for the thrusts t1, t2 and impulses i1, i2 of two engines and
\* the combined thrust and impulse returned
CombinedOf(t1, i1, t2, i2, thr, isp) ==
    ~EqVal(i1, i2) =>
        /\ EqVal(thr, Add(t1, t2))
        /\ EqVal(isp, Div(Add(t1, t2), Add(Div(t1, i1), Div(t2, i2))))
        /\ Lt(i1, isp) \/ Lt(i2, isp)
        /\ Lt(isp, i1) \/ Lt(isp, i2)

\* C6: for two engines of the table whose specific impulses differ, the
\* aggregator returns the sum of the two thrusts and the impulse
\* total_thrust / (thrust1 / isp1 + thrust2 / isp2), which lies strictly
\* between the two impulses; atmospheric and vacuum figures alike.
C6_CombinedIsp ==
    \A i \in CallsOf("_engine_stats") :
        (Len(calls[i].args.engines) = 2 /\ calls[i].ret.k = "tuple") =>
            /\ CombinedOf(KSP_ENGINES[calls[i].args.engines[1]].thrust_atm,
                          KSP_ENGINES[calls[i].args.engines[1]].isp_atm,
                          KSP_ENGINES[calls[i].args.engines[2]].thrust_atm,
                          KSP_ENGINES[calls[i].args.engines[2]].isp_atm,
                          calls[i].ret.thr_atm, calls[i].ret.isp_atm)
            /\ CombinedOf(KSP_ENGINES[calls[i].args.engines[1]].thrust_vac,
                          KSP_ENGINES[calls[i].args.engines[1]].isp_vac,
                          KSP_ENGINES[calls[i].args.engines[2]].thrust_vac,
                          KSP_ENGINES[calls[i].args.engines[2]].isp_vac,
                          calls[i].ret.thr_vac, calls[i].ret.isp_vac)

\* the aggregator has returned for the LV-T30 with the LV-909
C6_Witness ==
    /\ Ran("stage")
    /\ Len(calls) >= 1
    /\ calls[1].fn = "_engine_stats"
    /\ calls[1].args.engines = <<"lv-t30", "lv-909">>
    /\ calls[1].ret.k = "tuple"

---------------------------------------------------------------------------
(* C7 *)

\* C7 as claimed: the speed printed for kerbin at height 0 is 2246.13.
C7_Kerbin224613 ==
    (Ran("orbital-spd") /\ params.body = "kerbin" /\ EqVal(params.height, Zero))
    => Len(out) = 1 /\ RoundsTo(out[1].val, 224613, 2)

\* C7 amended: the orbital speed for kerbin at height 0 is
\* sqrt(3.5316423e12 / 600000), which rounds to 2426.12 at two decimals;
\* and for every body of the table and every finite height with
\* radius + height > 0 the formula returns
\* sqrt(std_grav_param(body) / (radius(body) + height)).
C7_OrbitalSpeed ==
    /\ (Ran("orbital-spd") /\ params.body = "kerbin" /\ EqVal(params.height, Zero)) =>
        /\ Len(calls) = 1
        /\ calls[1].ret.k = "sqrt"
        /\ EqVal(calls[1].ret.q, Div(Dec(35316423, 5), Dec(600000, 0)))
        /\ Len(out) = 1
        /\ out[1].val = round(calls[1].ret, 2)
        /\ RoundsTo(out[1].val, 242612, 2)
    /\ \A i \in CallsOf("_orbital_spd") :
        (/\ calls[i].args.body \in DOMAIN KSP_BODIES
         /\ Fin(calls[i].args.height)
         /\ Lt(Zero, Add(KSP_BODIES[calls[i].args.body].radius, calls[i].args.height)))
        => /\ calls[i].ret.k = "sqrt"
           /\ EqVal(Mul(calls[i].ret.q,
                        Add(KSP_BODIES[calls[i].args.body].radius,
                            calls[i].args.height)),
                    KSP_BODIES[calls[i].args.body].std_grav_param)

\* the speed for kerbin at height 0 has been printed
C7_Witness ==
    /\ Ran("orbital-spd")
    /\ params.body = "kerbin"
    /\ EqVal(params.height, Zero)
    /\ exit = 0
    /\ Len(out) = 1

---------------------------------------------------------------------------
(* C8 *)

\* v > 0; with fin, v finite as well
Positive(v, fin) == IF fin THEN Fin(v) /\ v.s = 1 ELSE Sign(v) = 1

\* the claim for one call of the delta-v formula with arguments a and
\* value r; fin restricts its cases to finite masses
DvDomainOf(a, r, fin) ==
    /\ (Positive(a.empty, fin) /\ Positive(a.full, fin)) => ~IsRaise(r)
    /\ (Positive(a.empty, fin) /\ EqVal(a.full, a.empty)
        /\ (IF fin THEN Fin(a.isp) ELSE a.isp.k # "nan"))
       => EqVal(r, Zero)
    /\ (Positive(a.empty, fin) /\ Positive(a.full, fin)
        /\ Lt(a.full, a.empty) /\ Sign(a.isp) = 1)
       => Sign(r) = -1
    /\ IsRaise(r) =>
        \/ Fin(a.empty) /\ a.empty.s = 0
        \/ Sign(Div(a.full, a.empty)) \in {0, -1}

\* the line dv prints is the value of the formula, rounded only
DvPassedThrough ==
    (Ran("dv") /\ exit = 0) =>
        /\ Len(calls) = 1
        /\ calls[1].args = [empty |-> params.empty, full |-> params.full,
                            isp |-> params.isp]
        /\ Len(out) = 1
        /\ out[1].val = round(calls[1].ret, 2)

\* C8 as claimed: the delta-v formula raises no error whenever empty > 0
\* and full > 0; it returns 0 for full = empty and a negative value, printed
\* as it is, for 0 < full < empty and isp > 0; it raises only when
\* full / empty is not positive or empty is 0.
C8_NoErrorWhenPositive ==
    /\ \A i \in CallsOf("_dv") : DvDomainOf(calls[i].args, calls[i].ret, FALSE)
    /\ DvPassedThrough

\* C8 amended: the delta-v formula raises no error whenever empty and full
\* are finite and positive; it returns 0 for finite full = empty > 0 and
\* finite isp, and a negative value, printed as it is, for finite
\* 0 < full < empty and isp > 0; it raises only when full / empty is not
\* positive or empty is 0.
C8_DvDomain ==
    /\ \A i \in CallsOf("_dv") : DvDomainOf(calls[i].args, calls[i].ret, TRUE)
    /\ DvPassedThrough

\* dv has printed a negative value for full below empty
C8_Witness ==
    /\ Ran("dv")
    /\ exit = 0
    /\ Fin(params.isp) /\ params.isp.s = 1
    /\ Lt(Zero, params.full)
    /\ Lt(params.full, params.empty)
    /\ Fin(params.empty)
    /\ Sign(Unrounded(out[1].val)) = -1

---------------------------------------------------------------------------
(* C9 *)

\* 0 < empty < full and isp > 0; with fin, all three finite as well
DvProper(a, fin) ==
    /\ Sign(a.empty) = 1
    /\ Lt(a.empty, a.full)
    /\ Sign(a.isp) = 1
    /\ fin => Fin(a.empty) /\ Fin(a.full) /\ Fin(a.isp)

\* r is isp * 9.82 * ln(full / empty)
DvFormulaOf(a, r) ==
    /\ r.k = "ln"
    /\ EqVal(r.c, Mul(a.isp, Dec(982, -2)))
    /\ EqVal(r.q, Div(a.full, a.empty))

\* of two proper applications, the one with the larger ratio at equal isp,
\* or the larger isp at equal ratio, has the larger value
DvIncreasing(fin) ==
    (pc = "done" /\ pair # Unset /\ DvProper(pair.a, fin) /\ DvProper(pair.b, fin)) =>
        /\ (/\ EqVal(pair.a.isp, pair.b.isp)
            /\ Lt(Div(pair.a.full, pair.a.empty), Div(pair.b.full, pair.b.empty)))
           => DvLt(pair.ra, pair.rb)
        /\ (/\ EqVal(Div(pair.a.full, pair.a.empty), Div(pair.b.full, pair.b.empty))
            /\ Lt(pair.a.isp, pair.b.isp))
           => DvLt(pair.ra, pair.rb)

\* C9 as claimed: for all empty, full, isp with 0 < empty < full and
\* isp > 0 the value of the delta-v formula is strictly increasing in
\* full / empty for fixed isp and strictly increasing in isp for fixed
\* full / empty.
C9_StrictlyIncreasing == DvIncreasing(FALSE)

\* C9 amended: for all finite empty, full, isp with 0 < empty < full and
\* isp > 0 the delta-v formula returns isp * 9.82 * ln(full / empty), in
\* stage too and whatever the body; and the value is strictly increasing in
\* full / empty for fixed isp and strictly increasing in isp for fixed
\* full / empty.
C9_DvFormula ==
    /\ \A i \in CallsOf("_dv") :
        DvProper(calls[i].args, TRUE) => DvFormulaOf(calls[i].args, calls[i].ret)
    /\ (pc = "done" /\ pair # Unset) =>
        /\ DvProper(pair.a, TRUE) => DvFormulaOf(pair.a, pair.ra)
        /\ DvProper(pair.b, TRUE) => DvFormulaOf(pair.b, pair.rb)
    /\ DvIncreasing(TRUE)

\* the formula has been applied to two finite proper triples of equal isp
\* and different ratios
C9_Witness ==
    /\ pc = "done"
    /\ pair # Unset
    /\ DvProper(pair.a, TRUE)
    /\ DvProper(pair.b, TRUE)
    /\ EqVal(pair.a.isp, pair.b.isp)
    /\ Lt(Div(pair.a.full, pair.a.empty), Div(pair.b.full, pair.b.empty))
    /\ pair.ra.k = "ln"

---------------------------------------------------------------------------
(* C10 *)

\* payload >= 0, 0 <= tank_dry <= tank_full, n_tanks >= 0
StageSane ==
    /\ Le(Zero, params.payload)
    /\ Le(Zero, params.tank_dry)
    /\ Le(params.tank_dry, params.tank_full)
    /\ Le(Zero, params.n_tanks)

\* all six lines in their order, no error, 0 < dry <= full, both delta-v
\* values >= 0 and both TWR values > 0
StageComplete ==
    /\ exit = 0
    /\ exc = "none"
    /\ [i \in 1..Len(out) |-> out[i].text] =
            <<"Dry mass:   {} t", "Total mass: {} t",
              "dv (atm):   {} m/s", "dv (vac):   {} m/s",
              "TWR (atm):  {} ({})", "TWR (vac):  {} ({})">>
    /\ Lt(Zero, Unrounded(out[1].val))
    /\ Le(Unrounded(out[1].val), Unrounded(out[2].val))
    /\ [i \in 1..Len(calls) |-> calls[i].fn] =
            <<"_engine_stats", "_dv", "_dv", "_twr", "_twr">>
    /\ \A i \in {2, 3} :
        /\ out[i + 1].val = floor(calls[i].ret)
        /\ Sign(calls[i].ret) \in {0, 1}
    /\ \A i \in {4, 5} :
        /\ out[i + 1].val = round(calls[i].ret, 2)
        /\ Sign(calls[i].ret) = 1

\* C10 as claimed: a stage that runs with payload >= 0,
\* 0 <= tank_dry <= tank_full and n_tanks >= 0 raises no arithmetic error
\* and prints its six lines in order, with both delta-v values >= 0 and both
\* TWR values > 0.
C10_StageNeverRaises == (Ran("stage") /\ StageSane) => StageComplete

\* C10 amended: a stage that runs with finite payload >= 0, finite
\* 0 <= tank_dry <= tank_full and finite n_tanks >= 0 raises no arithmetic
\* error and prints its six lines in order, with 0 < dry <= full, both
\* delta-v values >= 0 and both TWR values > 0.
C10_StageFinite == (Ran("stage") /\ StageSane /\ FiniteArgs) => StageComplete

\* a stage with a tank heavier full than dry has printed a positive delta-v
C10_Witness ==
    /\ Ran("stage")
    /\ StageSane
    /\ FiniteArgs
    /\ Lt(params.tank_dry, params.tank_full)
    /\ Lt(Zero, params.n_tanks)
    /\ Len(out) = 6
    /\ Len(calls) = 5
    /\ Sign(calls[2].ret) = 1

============================================================================
